---- MODULE Spec2Model ----
(***************************************************************************)
(* Model of the "Just Now" backend (src/backend/main.py, schemas.py): the  *)
(* intent-resolution pipeline process_intent -> process_intent_with_lbs    *)
(* -> extract_intent / search_location / get_route -> response builders   *)
(* -> GenUIResponse.model_validate.                                        *)
(*                                                                         *)
(* Conventions of the model                                                *)
(*  - An Optional value is a tuple: None is <<>>, a present value v is     *)
(*    <<v>> (Some(v)).                                                     *)
(*  - A text is a sequence of Unicode code points.                         *)
(*  - All points lie on one meridian.  A latitude is the arc length from   *)
(*    the equator along that meridian, in metres (R * phi), so that the    *)
(*    Haversine formula reduces exactly to the absolute difference of two  *)
(*    latitudes (see haversine_distance).                                  *)
(*  - An importance score is an integer number of thousandths.             *)
(*  - A localized string is the pair of its language and its message key.  *)
(***************************************************************************)
EXTENDS Integers, Sequences, FiniteSets, TLC

VARIABLES
    pc,             \* where the request is: idle, llm_call, search_call, route_call, done
    api_key,        \* environment: DEEPSEEK_API_KEY / OPENAI_API_KEY is set
    llm_client,     \* the module-level singleton _llm_client: "None" or "OpenAI"
    text_input,     \* request.text_input
    user_lat,       \* request.current_lat (Optional)
    user_lng,       \* request.current_lng (Optional)
    llm_outcome,    \* what the language-model call did, classified
    extract_result, \* what extract_intent did: returned a value or raised
    search_reply,   \* what the Nominatim request did
    search_result,  \* what search_location did: returned a list or raised
    route_reply,    \* what the OSRM request did
    route_result,   \* what get_route did: returned a value or raised
    in_flight,      \* collaborator calls awaited and not yet returned
    call_log,       \* collaborator calls of this request, in the order issued/completed
    route_request,  \* the arguments of this request's get_route call
    response,       \* what process_intent gave its caller
    requests,       \* how many requests the process has answered
    issued,         \* the intent_id of every response of an earlier request
    entry,          \* the endpoint of this request: none, text (process_intent), voice
    whisper_model,  \* the module-level singleton _whisper_model: "None" or "loaded"
    transcription,  \* what the saving and the transcription of the upload did
    temp_file,      \* this request's temporary audio file: none, exists, removed, left
    tasks,          \* concurrent view: where each of the overlapping requests is
    constructed     \* concurrent view: how many handles of each kind were constructed

vars == <<pc, api_key, llm_client, text_input, user_lat, user_lng, llm_outcome,
          extract_result, search_reply, search_result, route_reply, route_result,
          in_flight, call_log, route_request, response, requests, issued,
          entry, whisper_model, transcription, temp_file, tasks, constructed>>

-----------------------------------------------------------------------------
(* Optional values, Python truthiness                                       *)

None == <<>>

Some(v) == <<v>>

\* Python truthiness of an Optional[float]: None and 0.0 are falsy.
TruthyNumber(x) == x # None /\ x[1] # 0

\* Python truthiness of an Optional[str]: None and "" are falsy.
TruthyString(x) == x # None /\ x[1] # ""

Min(a, b) == IF a < b THEN a ELSE b

Abs(a) == IF a < 0 THEN -a ELSE a

-----------------------------------------------------------------------------
(* Constants of the program                                                 *)

DISAMBIGUATION_DISTANCE_THRESHOLD_METERS == 500

MAX_DISAMBIGUATION_RESULTS == 5

\* 0.1, in thousandths (main.py:803).
ImportanceThreshold == 100

\* user_text[:100] (main.py:728).
FallbackEchoLimit == 100

\* locations[:10] and locations[:5] of build_poi_search_response.
PoiMarkerLimit == 10

PoiActionLimit == 5

\* The default zoom of a map.
DefaultZoom == 14

\* The spans 0.5, 0.2, 0.1 and 0.05 degrees of build_navigation_response, in
\* metres of arc, rounded down: one degree of latitude is R*pi/180 =
\* 111194.93 m, and an integer span exceeds 0.5 degrees iff it exceeds 55597.
SpanZoom10 == 55597

SpanZoom11 == 22238

SpanZoom12 == 11119

SpanZoom13 == 5559

\* U+4E00 .. U+9FFF, the range the default intent's language test uses.
CjkFirst == 19968

CjkLast == 40959

-----------------------------------------------------------------------------
(* Bounds and input domains                                                 *)

\* Largest number of items one Nominatim reply holds in the model.
MaxResults == 2

\* Number of requests the process answers, one after the other.
MaxRequests == 2

\* Number of requests in progress at the same time, in the concurrent view.
MaxConcurrent == 3

\* Largest number of items of a long Nominatim reply (one more than the
\* largest number of location markers of a map).
MaxLongResults == 11

\* The request texts: one without a character of U+4E00 .. U+9FFF (Latin "a",
\* then U+4DFF and U+A000, the code points next to the range, then "a"s up to
\* one character more than the fallback response echoes), one with the first
\* character of the range.
TextInputs ==
    { <<97, 19967, 40960>> \o [i \in 1..(FallbackEchoLimit - 2) |-> 97], <<97, 19968>> }

\* The one meridian of the model, as a longitude.
Lngs == {118}

\* The positions a request carries: (current_lat, current_lng), each Optional.
\* A latitude is in metres of arc; latitude 0 is the equator.
UserPositions ==
    { <<<<>>, <<>>>>, <<<<0>>, <<>>>>, <<<<0>>, <<118>>>>, <<<<300>>, <<118>>>> }

\* The places Nominatim knows: (latitude in metres of arc, importance in
\* thousandths).  From latitude 0 they are 300, 600 and 1100 m away (gaps of
\* 300, 500 and 800 m); from latitude 300 they are 0, 300 and 800 m away.
\* The last one is 60 km (more than 0.5 degrees of latitude) from both.
\* Importances differ by 0, 100 (0.1) or 200.
Places ==
    { <<300, 200>>, <<300, 400>>, <<600, 200>>, <<600, 300>>, <<1100, 300>>, <<60000, 400>> }

-----------------------------------------------------------------------------
(* Geospatial math                                                          *)

\* haversine_distance for two points of one meridian.  With lng1 = lng2 the
\* code's delta_lambda is 0, so a = sin^2(delta_phi/2), c = 2*atan2(sqrt a,
\* sqrt(1-a)) = |delta_phi| and the result is R*|phi2 - phi1|: the absolute
\* difference of the two arc-length latitudes.
\* Every point of the model has its longitude in Lngs, a single meridian.
haversine_distance(lat1, lng1, lat2, lng2) == Abs(lat2 - lat1)

-----------------------------------------------------------------------------
(* Language-model collaborator: its replies                                 *)

\* The JSON objects the language model may emit.  A key may be missing
\* (intent_type here); destination_query and service_type may be null.
IntentTypes == {"navigation", "search_poi", "ride_hailing", "general_chat"}

DestinationQueries == {None, Some(""), Some("q")}

ServiceTypes == {None, Some("taxi"), Some("walk"), Some("bike")}

Languages == {"zh", "en"}

CategoryOf(intent_type) == IF intent_type = "general_chat" THEN "CHAT" ELSE "SERVICE"

IntentObjects ==
    { [category |-> CategoryOf(t), intent_type |-> t, destination_query |-> d,
       service_type |-> s, response_language |-> l] :
         t \in IntentTypes, d \in DestinationQueries, s \in ServiceTypes, l \in Languages }
    \cup
    { [category |-> "CHAT", destination_query |-> d, service_type |-> s,
       response_language |-> l] :
         d \in DestinationQueries, s \in ServiceTypes, l \in Languages }

EmptyObject == [category |-> "CHAT"]

\* The text of a completion, as tokens: "fence_open" (a leading code-fence
\* marker), "fence_close" (a trailing code-fence marker), "prose" (text
\* holding no brace or bracket), "obj" (the JSON
\* text of the reply's payload object), "arr" (a JSON array of scalars) and
\* "scalar" (a bare JSON scalar such as null or 42).
WrappedObject == { <<"obj">>, <<"fence_open", "obj", "fence_close">>, <<"prose", "obj", "prose">> }

NotAnObject == { <<"arr">>, <<"scalar">>, <<"prose", "arr">>, <<"prose">>,
                 <<"obj", "prose", "obj">>, <<>> }

\* Every outcome of client.chat.completions.create: it raises (an API or
\* network error, a timeout), or it returns a message whose content is None
\* or a text.
LlmReplies ==
    { [kind |-> k, tokens |-> <<>>, payload |-> EmptyObject] :
         k \in {"api_error", "timeout", "content_none"} }
    \cup
    { [kind |-> "content", tokens |-> w, payload |-> o] :
         w \in WrappedObject, o \in IntentObjects }
    \cup
    { [kind |-> "content", tokens |-> w, payload |-> EmptyObject] : w \in NotAnObject }

\* The completions that are a bare intent object with a destination, in
\* English, with service_type null or taxi.
PlainLlmReplies ==
    { r \in LlmReplies :
        /\ r.kind = "content"
        /\ r.tokens = <<"obj">>
        /\ "intent_type" \in DOMAIN r.payload
        /\ r.payload.destination_query = Some("q")
        /\ r.payload.response_language = "en"
        /\ r.payload.service_type \in {None, Some("taxi")} }

\* One completion for each way the request can go on: the plain ones (an
\* intent of each type), a failed call (the default intent), and a reply that
\* is no JSON object (the reading of the intent raises).
CoreLlmReplies ==
    PlainLlmReplies \cup { r \in LlmReplies : r.kind = "api_error" \/ r.tokens = <<"arr">> }

-----------------------------------------------------------------------------
(* Intent extractor                                                         *)

\* get_llm_client: raises ValueError when no API key is configured.
\* `constructed` tells that the call made a new OpenAI client.
get_llm_client(key) ==
    IF ~key THEN [raised |-> TRUE, client |-> "None", constructed |-> FALSE]
    ELSE [raised |-> FALSE, client |-> "OpenAI", constructed |-> TRUE]

\* get_client that makes a new client at every call.
get_client_no_cache(client, key) == get_llm_client(key)

\* get_client: the lazily constructed singleton.
get_client(client, key) ==
    IF client = "None" THEN get_llm_client(key)
    ELSE [raised |-> FALSE, client |-> client, constructed |-> FALSE]

DropLeadingFence(toks) ==
    IF Len(toks) > 0 /\ Head(toks) = "fence_open" THEN Tail(toks) ELSE toks

DropTrailingFence(toks) ==
    IF Len(toks) > 0 /\ toks[Len(toks)] = "fence_close" THEN SubSeq(toks, 1, Len(toks) - 1)
    ELSE toks

\* The regular-expression search of clean_llm_response: greedy, from the
\* first opening brace to the last closing brace of the content.
BraceSpan(toks) ==
    LET objs == { i \in 1..Len(toks) : toks[i] = "obj" }
    IN IF objs = {} THEN toks
       ELSE LET first == CHOOSE i \in objs : \A j \in objs : i <= j
                last  == CHOOSE i \in objs : \A j \in objs : j <= i
            IN SubSeq(toks, first, last)

\* clean_llm_response on a non-None content.
clean_llm_response(toks) ==
    IF toks = <<>> THEN toks
    ELSE LET content == DropTrailingFence(DropLeadingFence(toks))
         IN IF Len(content) > 0 /\ Head(content) \in {"obj", "arr"} THEN content
            ELSE BraceSpan(content)

\* json.loads: the decoded value, or a decode error.
json_loads(toks, payload) ==
    IF toks = <<"obj">> THEN [ok |-> TRUE, value |-> [type |-> "dict", fields |-> payload]]
    ELSE IF toks = <<"arr">> THEN [ok |-> TRUE, value |-> [type |-> "list", fields |-> EmptyObject]]
    ELSE IF toks = <<"scalar">> THEN [ok |-> TRUE, value |-> [type |-> "scalar", fields |-> EmptyObject]]
    ELSE [ok |-> FALSE, value |-> [type |-> "none", fields |-> EmptyObject]]

\* Some character of user_text lies in U+4E00 .. U+9FFF.
HasCjk(text) == \E i \in 1..Len(text) : CjkFirst <= text[i] /\ text[i] <= CjkLast

\* The default intent of extract_intent's except branch.
DefaultIntent(user_text) ==
    [type |-> "dict",
     fields |-> [category |-> "CHAT", intent_type |-> "general_chat",
                 destination_query |-> None, service_type |-> None,
                 slots |-> [original_query |-> user_text],
                 response_language |-> IF HasCjk(user_text) THEN "zh" ELSE "en"]]

\* The try block of extract_intent, once the completion call has ended with
\* `reply`: the decoded value is returned as it is; any exception gives the
\* default intent.
extract_intent(user_text, reply) ==
    IF reply.kind \in {"api_error", "timeout"} THEN DefaultIntent(user_text)
    ELSE IF reply.kind = "content_none" THEN DefaultIntent(user_text)
    ELSE LET decoded == json_loads(clean_llm_response(reply.tokens), reply.payload)
         IN IF decoded.ok THEN decoded.value ELSE DefaultIntent(user_text)

\* How the completion ended, seen from the caller of extract_intent.
WellFormedIntent(fields) ==
    {"intent_type", "destination_query", "service_type", "response_language"}
        \subseteq DOMAIN fields

ClassifyLlm(reply) ==
    IF reply.kind \in {"api_error", "timeout"} THEN reply.kind
    ELSE IF reply.kind = "content_none" THEN "undecodable"
    ELSE LET decoded == json_loads(clean_llm_response(reply.tokens), reply.payload)
         IN IF ~decoded.ok THEN "undecodable"
            ELSE IF decoded.value.type # "dict" THEN "not_an_object"
            ELSE IF ~WellFormedIntent(decoded.value.fields) THEN "incomplete_object"
            ELSE "intent"

-----------------------------------------------------------------------------
(* Geocoding search collaborator: its replies                               *)

PlaceName(lat) ==
    IF lat = 300 THEN "P300" ELSE IF lat = 600 THEN "P600"
    ELSE IF lat = 1100 THEN "P1100" ELSE "P60000"

\* One item of a Nominatim result list.
SearchItems ==
    { [place_id |-> p[1], name |-> PlaceName(p[1]), lat |-> p[1], lon |-> g,
       importance |-> p[2]] : p \in Places, g \in Lngs }

SeqsUpTo(S, n) == UNION { [1..k -> S] : k \in 0..n }

\* The request fails inside the try block of search_location.
SearchFailures == {"network_error", "timeout", "bad_status", "undecodable"}

\* Every outcome of the Nominatim request: a failure inside the try block; a
\* payload that decodes but is no list of place objects ("malformed": JSON
\* null, an error object, an item whose lat is no number); a list of items.
SearchReplies ==
    { [status |-> st, items |-> <<>>] : st \in SearchFailures \cup {"malformed"} }
    \cup
    { [status |-> "ok", items |-> its] : its \in SeqsUpTo(SearchItems, MaxResults) }

\* The i-th place of a long reply.  The first place is at 600 m of arc; the
\* second is `gap` metres further and half as many thousandths less
\* important; the later ones follow 100 m and 10 thousandths apart.
LongItem(i, gap) ==
    LET lat == IF i = 1 THEN 600 ELSE 600 + gap + 100 * (i - 2)
    IN [place_id |-> lat, name |-> PlaceName(lat), lat |-> lat, lon |-> 118,
        importance |-> IF i = 1 THEN 990 ELSE 990 - (gap \div 2) - 10 * (i - 2)]

Reverse(seq) == [i \in 1..Len(seq) |-> seq[Len(seq) + 1 - i]]

\* Replies of up to MaxLongResults places, nearest and most important first
\* or last, whose first two places are close (100 m, 0.05 less) or apart
\* (800 m, 0.4).  The request asks for `limit` results; how many the service
\* sends is the service's matter.
LongSearchReplies ==
    LET nearest_first == { [i \in 1..n |-> LongItem(i, gap)] :
                             n \in 0..MaxLongResults, gap \in {100, 800} }
    IN { [status |-> "ok", items |-> its] : its \in nearest_first }
       \cup { [status |-> "ok", items |-> Reverse(its)] : its \in nearest_first }

-----------------------------------------------------------------------------
(* Location resolver                                                        *)

PositionKnown(lat, lng) == lat # None /\ lng # None

\* One pass of the loop of search_location: the enriched location.
EnrichLocation(item, lat, lng) ==
    [id |-> <<"loc", item.place_id>>,
     name |-> item.name,
     lat |-> item.lat,
     lng |-> item.lon,
     distance_meters |-> IF PositionKnown(lat, lng)
                         THEN Some(haversine_distance(lat[1], lng[1], item.lat, item.lon))
                         ELSE None,
     importance |-> item.importance]

\* key=lambda x: x.get("distance_meters") or float('inf')
DistanceKey(loc) ==
    IF TruthyNumber(loc.distance_meters)
    THEN [inf |-> FALSE, v |-> loc.distance_meters[1]]
    ELSE [inf |-> TRUE, v |-> 0]

\* key=lambda x: -x.get("importance", 0)
ImportanceKey(loc) == [inf |-> FALSE, v |-> -loc.importance]

SortKey(loc, lat, lng) ==
    IF PositionKnown(lat, lng) THEN DistanceKey(loc) ELSE ImportanceKey(loc)

KeyLess(a, b) == IF a.inf THEN FALSE ELSE IF b.inf THEN TRUE ELSE a.v < b.v

\* list.sort is stable: an element goes before the first one with a larger key.
RECURSIVE InsertStable(_, _, _, _)
InsertStable(sorted, loc, lat, lng) ==
    IF sorted = <<>> THEN <<loc>>
    ELSE IF KeyLess(SortKey(loc, lat, lng), SortKey(Head(sorted), lat, lng))
         THEN <<loc>> \o sorted
         ELSE <<Head(sorted)>> \o InsertStable(Tail(sorted), loc, lat, lng)

RECURSIVE SortLocations(_, _, _)
SortLocations(locs, lat, lng) ==
    IF locs = <<>> THEN <<>>
    ELSE InsertStable(SortLocations(SubSeq(locs, 1, Len(locs) - 1), lat, lng),
                      locs[Len(locs)], lat, lng)

\* search_location: the value it returns, or that it raised.
search_location(reply, lat, lng) ==
    IF reply.status \in SearchFailures THEN [raised |-> FALSE, locations |-> <<>>]
    ELSE IF reply.status = "malformed" THEN [raised |-> TRUE, locations |-> <<>>]
    ELSE [raised |-> FALSE,
          locations |-> SortLocations(
              [i \in 1..Len(reply.items) |-> EnrichLocation(reply.items[i], lat, lng)],
              lat, lng)]

\* Step 4 of process_intent_with_lbs: needs_disambiguation.
needs_disambiguation(locations) ==
    /\ Len(locations) > 1
    /\ LET first_dist  == locations[1].distance_meters
           second_dist == locations[2].distance_meters
       IN IF first_dist # None /\ second_dist # None
          THEN second_dist[1] - first_dist[1] < DISAMBIGUATION_DISTANCE_THRESHOLD_METERS
          ELSE Abs(locations[1].importance - locations[2].importance) < ImportanceThreshold

-----------------------------------------------------------------------------
(* Routing collaborator: its replies                                        *)

\* GeoJSON coordinates are [lng, lat] pairs; json_type tells whether the two
\* entries are JSON numbers or JSON strings.
RouteGeometries ==
    { <<>>,
      << [x |-> 118, y |-> 0, json_type |-> "number"],
         [x |-> 118, y |-> 600, json_type |-> "number"] >>,
      << [x |-> 118, y |-> 0, json_type |-> "string"] >> }

Routes == { [coordinates |-> g, distance |-> 1200, duration |-> 600] : g \in RouteGeometries }

\* The request fails inside the try block of get_route.
RouteFailures == {"network_error", "timeout", "bad_status", "undecodable"}

\* Every outcome of the OSRM request: a failure inside the try block; a payload
\* that decodes to something that is no JSON object ("not_an_object"); an
\* object with a code and a route list.
RouteReplies ==
    { [status |-> st, code |-> "", routes |-> <<>>] :
         st \in RouteFailures \cup {"not_an_object"} }
    \cup
    { [status |-> "ok", code |-> "NoRoute", routes |-> <<>>] }
    \cup
    { [status |-> "ok", code |-> "Ok", routes |-> rs] : rs \in SeqsUpTo(Routes, 1) }

-----------------------------------------------------------------------------
(* Router                                                                   *)

\* [[coord[1], coord[0]] for coord in coordinates]
Polyline(coordinates) ==
    [i \in 1..Len(coordinates) |->
        [lat |-> coordinates[i].y, lng |-> coordinates[i].x,
         json_type |-> coordinates[i].json_type]]

\* get_route without its try block: a failed request raises.
get_route_uncaught(reply) ==
    IF reply.status \in RouteFailures \cup {"not_an_object"}
    THEN [raised |-> TRUE, route |-> None]
    ELSE IF reply.code # "Ok" \/ reply.routes = <<>> THEN [raised |-> FALSE, route |-> None]
    ELSE [raised |-> FALSE,
          route |-> Some([polyline |-> Polyline(reply.routes[1].coordinates),
                          distance_meters |-> reply.routes[1].distance,
                          duration_seconds |-> reply.routes[1].duration])]

\* get_route: the value it returns (None, or the route), or that it raised.
get_route(reply) ==
    IF reply.status \in RouteFailures THEN [raised |-> FALSE, route |-> None]
    ELSE IF reply.status = "not_an_object" THEN [raised |-> TRUE, route |-> None]
    ELSE IF reply.code # "Ok" \/ reply.routes = <<>> THEN [raised |-> FALSE, route |-> None]
    ELSE [raised |-> FALSE,
          route |-> Some([polyline |-> Polyline(reply.routes[1].coordinates),
                          distance_meters |-> reply.routes[1].distance,
                          duration_seconds |-> reply.routes[1].duration])]

\* A profile chosen per service type: cycling for bike.
RouteProfile_per_service(service_type) ==
    IF service_type = Some("taxi") THEN "driving"
    ELSE IF service_type = Some("bike") THEN "cycling" ELSE "walking"

\* profile="driving" if service_type == "taxi" else "walking"
RouteProfile(service_type) == IF service_type = Some("taxi") THEN "driving" ELSE "walking"

-----------------------------------------------------------------------------
(* Response builders                                                        *)

\* A string chosen by `"..." if language == "zh" else "..."`.
Localized(language, key) == <<IF language = "zh" THEN "zh" ELSE "en", key>>

\* A distance annotation: metres below 1 km, kilometres from there on; absent
\* when the distance is None or 0.  The digits are not modelled.
DistanceStr(loc, language) ==
    IF ~TruthyNumber(loc.distance_meters) THEN None
    ELSE Some([meters |-> loc.distance_meters[1],
               unit |-> Localized(language,
                                  IF loc.distance_meters[1] < 1000 THEN "m" ELSE "km")])

\* uuid.uuid4() returning the same value whenever it is called.
uuid4_constant == <<"uuid", 0>>

\* str(uuid.uuid4()) for the envelope a request is answered with: a value no
\* earlier answer carries, told from them by the number of the request.  (An
\* envelope that fails validation is dropped together with its id.)
uuid4 == <<"uuid", requests>>

Envelope(category, slots, components) ==
    [intent_id |-> uuid4, category |-> category, ui_schema_version |-> "1.0",
     slots |-> slots, ui_payload |-> [components |-> components]]

build_chat_response(user_text, language) ==
    Envelope("CHAT",
             [original_query |-> user_text],
             << [type |-> "InfoCard", widget_id |-> "chat",
                 title |-> Localized(language, "Response"),
                 content_md |-> [template |-> Localized(language, "You said"),
                                 text |-> user_text],
                 style |-> "standard"] >>)

\* create_fallback_response with a category outside the schema's Literal.
create_fallback_response_bad_category(user_text) ==
    Envelope("ERROR",
             [error |-> "processing_failed",
              original_query |-> SubSeq(user_text, 1, Min(Len(user_text), FallbackEchoLimit))],
             << [type |-> "InfoCard", widget_id |-> "error_card_01",
                 title |-> <<"en", "Unable to Process Request">>,
                 content_md |-> [template |-> <<"en", "Sorry">>,
                                 text |-> SubSeq(user_text, 1,
                                                 Min(Len(user_text), FallbackEchoLimit)),
                                 ellipsis |-> Len(user_text) > FallbackEchoLimit],
                 style |-> "warning"] >>)

\* create_fallback_response echoing the whole input.
create_fallback_response_untruncated(user_text) ==
    Envelope("CHAT",
             [error |-> "processing_failed", original_query |-> user_text],
             << [type |-> "InfoCard", widget_id |-> "error_card_01",
                 title |-> <<"en", "Unable to Process Request">>,
                 content_md |-> [template |-> <<"en", "Sorry">>,
                                 text |-> user_text,
                                 ellipsis |-> Len(user_text) > FallbackEchoLimit],
                 style |-> "warning"] >>)

create_fallback_response(user_text) ==
    Envelope("CHAT",
             [error |-> "processing_failed",
              original_query |-> SubSeq(user_text, 1, Min(Len(user_text), FallbackEchoLimit))],
             << [type |-> "InfoCard", widget_id |-> "error_card_01",
                 title |-> <<"en", "Unable to Process Request">>,
                 content_md |-> [template |-> <<"en", "Sorry">>,
                                 text |-> SubSeq(user_text, 1,
                                                 Min(Len(user_text), FallbackEchoLimit)),
                                 ellipsis |-> Len(user_text) > FallbackEchoLimit],
                 style |-> "warning"] >>)

UserMarker(lat, lng, language) ==
    IF TruthyNumber(lat) /\ TruthyNumber(lng)
    THEN << [lat |-> lat[1], lng |-> lng[1], title |-> Localized(language, "My Location")] >>
    ELSE <<>>

\* seq[:n] that does not cut.
Prefix_nocap(seq, n) == seq

\* seq[:n + 1]
Prefix_one_more(seq, n) == SubSeq(seq, 1, Min(Len(seq), n + 1))

Prefix(seq, n) == SubSeq(seq, 1, Min(Len(seq), n))

build_disambiguation_response(locations, original_query, language) ==
    LET shown == Prefix(locations, MAX_DISAMBIGUATION_RESULTS)
        items == [i \in 1..Len(shown) |->
                    [id |-> shown[i].id,
                     name |-> [name |-> shown[i].name,
                               suffix |-> DistanceStr(shown[i], language)],
                     lat |-> shown[i].lat, lng |-> shown[i].lng,
                     distance_meters |-> shown[i].distance_meters]]
    IN Envelope("SERVICE",
                [query |-> original_query, status |-> "disambiguation_required"],
                << [type |-> "DisambiguationList", widget_id |-> "disambig",
                    title |-> Localized(language, "Select Destination"),
                    message |-> [template |-> Localized(language, "Multiple locations found"),
                                 text |-> original_query],
                    items |-> items] >>)

Max(a, b) == IF a < b THEN b ELSE a

\* The step function of build_navigation_response.
ZoomForSpan(max_diff) ==
    IF max_diff > SpanZoom10 THEN 10
    ELSE IF max_diff > SpanZoom11 THEN 11
    ELSE IF max_diff > SpanZoom12 THEN 12
    ELSE IF max_diff > SpanZoom13 THEN 13
    ELSE 14

\* RideItem whose deep link names the destination without its coordinates.
RideItem_name_only(tier, dest, route_data, language) ==
    [id |-> <<"ride", tier>>,
     title |-> Localized(language, tier),
     subtitle |-> [template |-> Localized(language, "min away"),
                   distance_meters |-> IF route_data # None
                                       THEN Some(route_data[1].distance_meters) ELSE None,
                   duration_seconds |-> IF route_data # None
                                        THEN Some(route_data[1].duration_seconds) ELSE None],
     action |-> [type |-> "deep_link",
                 url |-> [api |-> "order_ride", type |-> tier, dest |-> dest.name]]]

RideItem(tier, dest, route_data, language) ==
    [id |-> <<"ride", tier>>,
     title |-> Localized(language, tier),
     subtitle |-> [template |-> Localized(language, "min away"),
                   distance_meters |-> IF route_data # None
                                       THEN Some(route_data[1].distance_meters) ELSE None,
                   duration_seconds |-> IF route_data # None
                                        THEN Some(route_data[1].duration_seconds) ELSE None],
     action |-> [type |-> "deep_link",
                 url |-> [api |-> "order_ride", type |-> tier, dest |-> dest.name,
                          dest_lat |-> dest.lat, dest_lng |-> dest.lng]]]

\* Coordinates of a map centre are doubled, so that a midpoint is an integer.
build_navigation_response(lat, lng, dest_location, route_data, service_type, language) ==
    LET both == TruthyNumber(lat) /\ TruthyNumber(lng)
        markers == UserMarker(lat, lng, language)
                   \o << [lat |-> dest_location.lat, lng |-> dest_location.lng,
                          title |-> dest_location.name] >>
        spanned == route_data # None /\ both
        max_diff == IF spanned
                    THEN Max(Abs(lat[1] - dest_location.lat), Abs(lng[1] - dest_location.lng))
                    ELSE 0
        zoom == IF spanned THEN ZoomForSpan(max_diff) ELSE DefaultZoom
        center == IF spanned
                  THEN [lat_x2 |-> lat[1] + dest_location.lat,
                        lng_x2 |-> lng[1] + dest_location.lng]
                  ELSE [lat_x2 |-> 2 * dest_location.lat, lng_x2 |-> 2 * dest_location.lng]
        overlay == route_data # None /\ route_data[1].polyline # <<>>
        map == IF overlay
               THEN [type |-> "MapView", widget_id |-> "map", center |-> center,
                     zoom |-> zoom, markers |-> markers,
                     route_polyline |-> route_data[1].polyline]
               ELSE [type |-> "MapView", widget_id |-> "map", center |-> center,
                     zoom |-> zoom, markers |-> markers]
        rides == IF service_type = Some("taxi")
                 THEN << [type |-> "ActionList", widget_id |-> "rides",
                          title |-> Localized(language, "Available Rides"),
                          items |-> << RideItem("economy", dest_location, route_data, language),
                                       RideItem("premium", dest_location, route_data, language),
                                       RideItem("pool", dest_location, route_data, language) >>] >>
                 ELSE <<>>
        base == [destination |-> dest_location.name,
                 destination_lat |-> dest_location.lat,
                 destination_lng |-> dest_location.lng]
        routed == IF route_data # None
                  THEN [distance_meters |-> route_data[1].distance_meters,
                        duration_seconds |-> route_data[1].duration_seconds]
                  ELSE <<>>
        service == IF TruthyString(service_type)
                   THEN [service_type |-> service_type[1]] ELSE <<>>
    IN Envelope("SERVICE", base @@ routed @@ service, <<map>> \o rides)

\* The empty result reported as a failure.
no_results_response_as_error(query, language) ==
    Envelope("CHAT",
             [error |-> "processing_failed", query |-> query],
             << [type |-> "InfoCard", widget_id |-> "info",
                 title |-> Localized(language, "No Results Found"),
                 content_md |-> [template |-> Localized(language, "no locations found"),
                                 text |-> query],
                 style |-> "warning"] >>)

\* build_poi_search_response, `if not locations`: the "no results" card.
no_results_response(query, language) ==
    Envelope("SERVICE",
             [query |-> query, results_count |-> 0],
             << [type |-> "InfoCard", widget_id |-> "info",
                 title |-> Localized(language, "No Results Found"),
                 content_md |-> [template |-> Localized(language, "no locations found"),
                                 text |-> query],
                 style |-> "warning"] >>)

\* build_poi_search_response for a non-empty list: the map and the action list.
poi_results_response(locations, query, lat, lng, language) ==
    LET both == TruthyNumber(lat) /\ TruthyNumber(lng)
        marked == Prefix(locations, PoiMarkerLimit)
        markers == UserMarker(lat, lng, language)
                   \o [i \in 1..Len(marked) |->
                         [lat |-> marked[i].lat, lng |-> marked[i].lng,
                          title |-> marked[i].name]]
        center == IF both THEN [lat_x2 |-> 2 * lat[1], lng_x2 |-> 2 * lng[1]]
                  ELSE [lat_x2 |-> 2 * locations[1].lat, lng_x2 |-> 2 * locations[1].lng]
        listed == Prefix(locations, PoiActionLimit)
        items == [i \in 1..Len(listed) |->
                    [id |-> listed[i].id,
                     title |-> listed[i].name,
                     subtitle |-> DistanceStr(listed[i], language),
                     action |-> [type |-> "deep_link",
                                 url |-> [api |-> "navigate", dest |-> listed[i].name,
                                          lat |-> listed[i].lat, lng |-> listed[i].lng]]]]
    IN Envelope("SERVICE",
                [query |-> query, results_count |-> Len(locations)],
                << [type |-> "MapView", widget_id |-> "map", center |-> center,
                    zoom |-> DefaultZoom, markers |-> markers],
                   [type |-> "ActionList", widget_id |-> "pois",
                    title |-> [template |-> Localized(language, "Results for"),
                               text |-> query],
                    items |-> items] >>)

build_poi_search_response(locations, query, lat, lng, language) ==
    IF locations = <<>> THEN no_results_response(query, language)
    ELSE poi_results_response(locations, query, lat, lng, language)

-----------------------------------------------------------------------------
(* Envelope schema (schemas.py)                                             *)

ComponentTypes == {"InfoCard", "ActionList", "MapView", "DisambiguationList"}

CardStyles == {"standard", "highlight", "warning"}

ActionTypes == {"deep_link", "api_call", "toast", "select_location"}

\* route_polyline: Optional[List[List[float]]]
ValidPolyline(c) ==
    "route_polyline" \in DOMAIN c =>
        \A i \in 1..Len(c.route_polyline) : c.route_polyline[i].json_type = "number"

ValidComponent(c) ==
    /\ c.type \in ComponentTypes
    /\ c.type = "InfoCard" => c.style \in CardStyles
    /\ c.type = "ActionList" => \A i \in 1..Len(c.items) : c.items[i].action.type \in ActionTypes
    /\ c.type = "MapView" => ValidPolyline(c)

\* GenUIResponse.model_validate succeeds.
model_validate(ui_data) ==
    /\ ui_data.intent_id \in {"uuid"} \X Nat
    /\ ui_data.category \in {"SERVICE", "CHAT"}
    /\ ui_data.ui_schema_version = "1.0"
    /\ \A i \in 1..Len(ui_data.ui_payload.components) :
          ValidComponent(ui_data.ui_payload.components[i])

-----------------------------------------------------------------------------
(* Orchestrator: process_intent and process_intent_with_lbs                 *)

NoValue == [status |-> "none"]

NoReply == [status |-> "none", items |-> <<>>]

\* dict.get(key, default)
Get(fields, key, default) == IF key \in DOMAIN fields THEN fields[key] ELSE default

IntentType(intent) == Get(intent.fields, "intent_type", "general_chat")

DestinationQuery(intent) == Get(intent.fields, "destination_query", None)

ServiceType(intent) == Get(intent.fields, "service_type", None)

Language(intent) == Get(intent.fields, "response_language", "zh")

\* The test of step 2 without its `or not destination_query`.
is_chat_intent_type_only(intent_type, destination_query) == intent_type = "general_chat"

\* intent_type == "general_chat" or not destination_query
is_chat_intent(intent_type, destination_query) ==
    intent_type = "general_chat" \/ ~TruthyString(destination_query)

\* The except branch of process_intent: the fallback envelope, validated.
HandleException(user_text) ==
    LET fallback == create_fallback_response(user_text)
    IN IF model_validate(fallback)
       THEN [status |-> "returned", envelope |-> fallback]
       ELSE [status |-> "raised"]

\* The end of the try block of process_intent: the envelope is validated and
\* returned; a validation error is an exception like any other.
Respond(ui_data, user_text) ==
    IF model_validate(ui_data)
    THEN [status |-> "returned", envelope |-> ui_data]
    ELSE HandleException(user_text)

\* "[\u8bed\u97f3\u8f93\u5165]", the text process_voice gives the fallback
\* response in place of the user's text.
VoiceMarker == <<91, 35821, 38899, 36755, 20837, 93>>

\* The user text the except branch of the endpoint echoes: process_intent
\* passes request.text_input, process_voice the marker.
FallbackEcho == IF entry = "voice" THEN VoiceMarker ELSE text_input

\* A finally clause that leaves the file alone.
finally_cleanup_skipped(returning, file) == {file}

\* The finally clause of process_voice, run when the handler returns: an
\* existing file is unlinked; os.unlink fails (the file is left) or succeeds.
finally_cleanup(returning, file) ==
    IF returning /\ file = "exists" THEN {"removed", "left"} ELSE {file}

\* The call is started and not awaited: it stays in flight.
Awaited_not(call, flying) == flying

\* `await`: the awaited call has returned and is in flight no longer.
Awaited(call, flying) == flying \ {call}

\* Step 6: a route is asked for.
wants_route(lat, lng, intent_type) ==
    PositionKnown(lat, lng) /\ intent_type \in {"navigation", "ride_hailing"}

\* Step 7 of process_intent_with_lbs.
final_response(intent, locations, lat, lng, route_data) ==
    IF IntentType(intent) = "search_poi"
    THEN build_poi_search_response(locations, DestinationQuery(intent)[1], lat, lng,
                                   Language(intent))
    ELSE build_navigation_response(lat, lng, locations[1], route_data,
                                   ServiceType(intent), Language(intent))

Init ==
    /\ pc = "idle"
    /\ api_key \in BOOLEAN
    /\ llm_client = "None"
    /\ text_input = <<>>
    /\ user_lat = None
    /\ user_lng = None
    /\ llm_outcome = "none"
    /\ extract_result = NoValue
    /\ search_reply = NoReply
    /\ search_result = NoValue
    /\ route_reply = NoValue
    /\ route_result = NoValue
    /\ in_flight = {}
    /\ call_log = <<>>
    /\ route_request = NoValue
    /\ response = NoValue
    /\ requests = 0
    /\ issued = {}
    /\ entry = "none"
    /\ whisper_model = "None"
    /\ transcription = NoValue
    /\ temp_file = "none"
    /\ tasks = [r \in 1..MaxConcurrent |-> "idle"]
    /\ constructed = [llm |-> 0, search |-> 0, route |-> 0]

\* process_intent is called; extract_intent obtains the client (which raises
\* without an API key, before the try block) and issues the completion call.
ReceiveRequest(text, lat, lng) ==
    /\ pc = "idle"
    /\ requests < MaxRequests
    /\ text_input' = text
    /\ user_lat' = lat
    /\ user_lng' = lng
    /\ LET c == get_client(llm_client, api_key)
       IN IF c.raised
          THEN /\ extract_result' = [status |-> "raised"]
               /\ response' = HandleException(text)
               /\ pc' = "done"
               /\ UNCHANGED <<llm_client, in_flight, call_log>>
          ELSE /\ llm_client' = c.client
               /\ in_flight' = in_flight \cup {"llm"}
               /\ call_log' = Append(call_log, <<"llm", "issued">>)
               /\ pc' = "llm_call"
               /\ UNCHANGED <<extract_result, response>>
    /\ entry' = "text"
    /\ UNCHANGED <<api_key, llm_outcome, search_reply, search_result, route_reply,
                   route_result, route_request, requests, issued>>
    /\ UNCHANGED <<whisper_model, transcription, temp_file, tasks, constructed>>

\* The completion call ends; extract_intent returns; steps 1 and 2 run, and
\* the search is issued for an actionable intent.
LlmReturns(reply) ==
    /\ pc = "llm_call"
    /\ LET intent == extract_intent(text_input, reply)
           landed == Awaited("llm", in_flight)
           log    == Append(call_log, <<"llm", "completed">>)
       IN /\ llm_outcome' = ClassifyLlm(reply)
          /\ extract_result' = [status |-> "returned", value |-> intent]
          /\ IF intent.type # "dict"
             THEN \* intent.get raises AttributeError
                  /\ response' = HandleException(FallbackEcho)
                  /\ pc' = "done"
                  /\ in_flight' = landed
                  /\ call_log' = log
             ELSE IF is_chat_intent(IntentType(intent), DestinationQuery(intent))
             THEN /\ response' = Respond(build_chat_response(text_input, Language(intent)),
                                         FallbackEcho)
                  /\ pc' = "done"
                  /\ in_flight' = landed
                  /\ call_log' = log
             ELSE /\ in_flight' = landed \cup {"search"}
                  /\ call_log' = Append(log, <<"search", "issued">>)
                  /\ pc' = "search_call"
                  /\ UNCHANGED response
    /\ UNCHANGED <<api_key, llm_client, text_input, user_lat, user_lng, search_reply,
                   search_result, route_reply, route_result, route_request, requests,
                   issued>>
    /\ temp_file' \in finally_cleanup(pc' = "done", temp_file)
    /\ UNCHANGED <<entry, whisper_model, transcription, tasks, constructed>>

\* The Nominatim request ends; search_location returns or raises; steps 3 to 7
\* run up to the routing call, when one is made.
SearchReturns(reply) ==
    /\ pc = "search_call"
    /\ LET intent == extract_result.value
           found  == search_location(reply, user_lat, user_lng)
           landed == Awaited("search", in_flight)
           log    == Append(call_log, <<"search", "completed">>)
           judged == Append(log, <<"disambiguation", "evaluated">>)
       IN /\ search_reply' = reply
          /\ search_result' = IF found.raised THEN [status |-> "raised"]
                              ELSE [status |-> "returned", value |-> found.locations]
          /\ IF found.raised
             THEN /\ response' = HandleException(FallbackEcho)
                  /\ pc' = "done"
                  /\ in_flight' = landed
                  /\ call_log' = log
                  /\ UNCHANGED route_request
             ELSE IF found.locations = <<>>
             THEN /\ response' = Respond(build_poi_search_response(
                                             <<>>, DestinationQuery(intent)[1], user_lat,
                                             user_lng, Language(intent)),
                                         FallbackEcho)
                  /\ pc' = "done"
                  /\ in_flight' = landed
                  /\ call_log' = log
                  /\ UNCHANGED route_request
             ELSE IF needs_disambiguation(found.locations)
             THEN /\ response' = Respond(build_disambiguation_response(
                                             found.locations, DestinationQuery(intent)[1],
                                             Language(intent)),
                                         FallbackEcho)
                  /\ pc' = "done"
                  /\ in_flight' = landed
                  /\ call_log' = judged
                  /\ UNCHANGED route_request
             ELSE IF wants_route(user_lat, user_lng, IntentType(intent))
             THEN /\ in_flight' = landed \cup {"route"}
                  /\ call_log' = Append(judged, <<"route", "issued">>)
                  /\ route_request' =
                        [status |-> "issued",
                         start_lat |-> user_lat[1], start_lng |-> user_lng[1],
                         end_lat |-> found.locations[1].lat,
                         end_lng |-> found.locations[1].lng,
                         profile |-> RouteProfile(ServiceType(intent))]
                  /\ pc' = "route_call"
                  /\ UNCHANGED response
             ELSE /\ response' = Respond(final_response(intent, found.locations, user_lat,
                                                        user_lng, None),
                                         FallbackEcho)
                  /\ pc' = "done"
                  /\ in_flight' = landed
                  /\ call_log' = judged
                  /\ UNCHANGED route_request
    /\ UNCHANGED <<api_key, llm_client, text_input, user_lat, user_lng, llm_outcome,
                   extract_result, route_reply, route_result, requests, issued>>
    /\ temp_file' \in finally_cleanup(pc' = "done", temp_file)
    /\ UNCHANGED <<entry, whisper_model, transcription, tasks, constructed>>

\* RouteReturns that asks for the route a second time when the first request
\* gave none.
RouteReturns_retry(reply) ==
    /\ pc = "route_call"
    /\ LET routed == get_route(reply)
           again  == /\ ~routed.raised
                     /\ routed.route = None
                     /\ ~\E i \in 1..Len(call_log) : call_log[i] = <<"route", "completed">>
       IN /\ route_reply' = reply
          /\ route_result' = IF again THEN route_result
                             ELSE IF routed.raised THEN [status |-> "raised"]
                             ELSE [status |-> "returned", value |-> routed.route]
          /\ response' = IF again THEN response
                         ELSE IF routed.raised THEN HandleException(FallbackEcho)
                         ELSE Respond(final_response(extract_result.value,
                                                     search_result.value, user_lat,
                                                     user_lng, routed.route),
                                      FallbackEcho)
          /\ in_flight' = IF again THEN in_flight ELSE Awaited("route", in_flight)
          /\ call_log' = IF again
                         THEN call_log \o << <<"route", "completed">>, <<"route", "issued">> >>
                         ELSE Append(call_log, <<"route", "completed">>)
          /\ pc' = IF again THEN "route_call" ELSE "done"
    /\ UNCHANGED <<api_key, llm_client, text_input, user_lat, user_lng, llm_outcome,
                   extract_result, search_reply, search_result, route_request, requests,
                   issued>>
    /\ temp_file' \in finally_cleanup(pc' = "done", temp_file)
    /\ UNCHANGED <<entry, whisper_model, transcription, tasks, constructed>>

\* The OSRM request ends; get_route returns or raises; step 7 runs.
RouteReturns(reply) ==
    /\ pc = "route_call"
    /\ LET routed == get_route(reply)
       IN /\ route_reply' = reply
          /\ route_result' = IF routed.raised THEN [status |-> "raised"]
                             ELSE [status |-> "returned", value |-> routed.route]
          /\ response' = IF routed.raised THEN HandleException(FallbackEcho)
                         ELSE Respond(final_response(extract_result.value,
                                                     search_result.value, user_lat,
                                                     user_lng, routed.route),
                                      FallbackEcho)
    /\ in_flight' = Awaited("route", in_flight)
    /\ call_log' = Append(call_log, <<"route", "completed">>)
    /\ pc' = "done"
    /\ UNCHANGED <<api_key, llm_client, text_input, user_lat, user_lng, llm_outcome,
                   extract_result, search_reply, search_result, route_request, requests,
                   issued>>
    /\ temp_file' \in finally_cleanup(pc' = "done", temp_file)
    /\ UNCHANGED <<entry, whisper_model, transcription, tasks, constructed>>

\* The response has been delivered; the process waits for its next request.
\* Nothing but the client singleton and the environment outlives a request.
NextRequest ==
    /\ pc = "done"
    /\ pc' = "idle"
    /\ text_input' = <<>>
    /\ user_lat' = None
    /\ user_lng' = None
    /\ llm_outcome' = "none"
    /\ extract_result' = NoValue
    /\ search_reply' = NoReply
    /\ search_result' = NoValue
    /\ route_reply' = NoValue
    /\ route_result' = NoValue
    /\ in_flight' = {}
    /\ call_log' = <<>>
    /\ route_request' = NoValue
    /\ response' = NoValue
    /\ requests' = requests + 1
    /\ issued' = issued \cup {response.envelope.intent_id}
    /\ entry' = "none"
    /\ transcription' = NoValue
    /\ temp_file' = "none"
    /\ UNCHANGED <<api_key, llm_client, whisper_model, tasks, constructed>>

Next ==
    \/ \E text \in TextInputs, pos \in UserPositions : ReceiveRequest(text, pos[1], pos[2])
    \/ \E reply \in LlmReplies : LlmReturns(reply)
    \/ \E reply \in SearchReplies : SearchReturns(reply)
    \/ \E reply \in RouteReplies : RouteReturns(reply)
    \/ NextRequest

Spec == Init /\ [][Next]_vars

\* What happens to an upload before the pipeline: the temporary file cannot be
\* created; the upload cannot be read or written to it; the Whisper model
\* cannot be loaded; transcribe raises; transcribe returns a text, which
\* strip() may leave empty.
VoiceUploads ==
    { [kind |-> k, text |-> <<>>] :
         k \in {"tempfile_failed", "save_failed", "model_failed", "transcribe_failed"} }
    \cup { [kind |-> "transcribed", text |-> t] : t \in TextInputs \cup {<<>>} }

\* get_whisper_model: the model is loaded on first use and kept.
get_whisper_model(model, upload) ==
    IF model = "None" /\ upload.kind = "model_failed"
    THEN [raised |-> TRUE, model |-> model]
    ELSE [raised |-> FALSE, model |-> "loaded"]

\* process_voice is called: the upload is saved and transcribed; an empty
\* transcript or an exception gives the fallback response for the marker; a
\* transcript starts the pipeline, up to the completion call.
ReceiveVoice(upload, lat, lng) ==
    /\ pc = "idle"
    /\ requests < MaxRequests
    /\ upload.kind = "model_failed" => whisper_model = "None"
    /\ entry' = "voice"
    /\ user_lat' = lat
    /\ user_lng' = lng
    /\ LET saved  == upload.kind \notin {"tempfile_failed", "save_failed"}
           loaded == get_whisper_model(whisper_model, upload)
           heard  == saved /\ ~loaded.raised /\ upload.kind = "transcribed"
           file   == IF upload.kind = "tempfile_failed" THEN "none" ELSE "exists"
           c      == get_client(llm_client, api_key)
           asked  == <<"transcribe", "issued">>
           told   == <<"transcribe", "completed">>
       IN /\ whisper_model' = IF saved THEN loaded.model ELSE whisper_model
          /\ transcription' =
                IF ~saved \/ loaded.raised THEN [status |-> "not_called"]
                ELSE IF upload.kind = "transcribe_failed" THEN [status |-> "raised"]
                ELSE [status |-> "returned", text |-> upload.text]
          /\ text_input' = IF heard THEN upload.text ELSE <<>>
          /\ IF ~heard \/ upload.text = <<>> \/ c.raised
             THEN /\ response' = HandleException(VoiceMarker)
                  /\ pc' = "done"
                  /\ extract_result' = IF heard /\ upload.text # <<>>
                                       THEN [status |-> "raised"] ELSE extract_result
                  /\ call_log' = IF saved /\ ~loaded.raised
                                 THEN <<asked, told>> ELSE call_log
                  /\ temp_file' \in finally_cleanup(TRUE, file)
                  /\ UNCHANGED <<llm_client, in_flight>>
             ELSE /\ llm_client' = c.client
                  /\ in_flight' = in_flight \cup {"llm"}
                  /\ call_log' = <<asked, told, <<"llm", "issued">>>>
                  /\ pc' = "llm_call"
                  /\ temp_file' = file
                  /\ UNCHANGED <<extract_result, response>>
    /\ UNCHANGED <<api_key, llm_outcome, search_reply, search_result, route_reply,
                   route_result, route_request, requests, issued, tasks, constructed>>

\* The process answering voice requests.
NextVoice ==
    \/ \E upload \in VoiceUploads, pos \in UserPositions :
          ReceiveVoice(upload, pos[1], pos[2])
    \/ \E reply \in CoreLlmReplies : LlmReturns(reply)
    \/ \E reply \in SearchReplies : SearchReturns(reply)
    \/ \E reply \in RouteReplies : RouteReturns(reply)
    \/ NextRequest

SpecVoice == Init /\ [][NextVoice]_vars

\* Concurrent view: requests that overlap.  The event loop runs one handler at
\* a time and changes handler only at an await: get_client and the completion
\* call (a synchronous call) are one step; the HTTP requests of the search and
\* of the routing are awaited.  Only the handles are followed here.

MainVars ==
    <<pc, text_input, user_lat, user_lng, llm_outcome, extract_result, search_reply,
      search_result, route_reply, route_result, in_flight, call_log, route_request,
      response, requests, issued, entry, whisper_model, transcription, temp_file>>

\* Request r starts: the client is obtained, the completion call is made and
\* returns; a chat intent is answered; for any other intent search_location
\* makes its httpx.AsyncClient and awaits the request.
TaskStarts(r, chat) ==
    /\ tasks[r] = "idle"
    /\ LET c == get_client(llm_client, api_key)
       IN IF c.raised
          THEN /\ tasks' = [tasks EXCEPT ![r] = "failed"]
               /\ UNCHANGED <<llm_client, constructed>>
          ELSE /\ llm_client' = c.client
               /\ tasks' = [tasks EXCEPT ![r] = IF chat THEN "chat" ELSE "search_call"]
               /\ constructed' =
                     [constructed EXCEPT
                        !.llm = @ + (IF c.constructed THEN 1 ELSE 0),
                        !.search = @ + (IF chat THEN 0 ELSE 1)]
    /\ UNCHANGED api_key
    /\ UNCHANGED MainVars

\* The search of request r ends and its client is closed; the request is
\* answered, or get_route makes its httpx.AsyncClient and awaits the request.
TaskSearchReturns(r, routed) ==
    /\ tasks[r] = "search_call"
    /\ tasks' = [tasks EXCEPT ![r] = IF routed THEN "route_call" ELSE "after_search"]
    /\ constructed' = [constructed EXCEPT !.route = @ + (IF routed THEN 1 ELSE 0)]
    /\ UNCHANGED <<api_key, llm_client>>
    /\ UNCHANGED MainVars

\* The routing request of request r ends, its client is closed, the request
\* is answered.
TaskRouteReturns(r) ==
    /\ tasks[r] = "route_call"
    /\ tasks' = [tasks EXCEPT ![r] = "after_route"]
    /\ UNCHANGED <<api_key, llm_client, constructed>>
    /\ UNCHANGED MainVars

NextHandles ==
    \/ \E r \in 1..MaxConcurrent, chat \in BOOLEAN : TaskStarts(r, chat)
    \/ \E r \in 1..MaxConcurrent, routed \in BOOLEAN : TaskSearchReturns(r, routed)
    \/ \E r \in 1..MaxConcurrent : TaskRouteReturns(r)

SpecHandles == Init /\ [][NextHandles]_vars

\* The process answering requests whose searches return long replies.
NextLong ==
    \/ \E text \in TextInputs, pos \in UserPositions : ReceiveRequest(text, pos[1], pos[2])
    \/ \E reply \in PlainLlmReplies : LlmReturns(reply)
    \/ \E reply \in LongSearchReplies : SearchReturns(reply)
    \/ \E reply \in RouteReplies : RouteReturns(reply)
    \/ NextRequest

SpecLong == Init /\ [][NextLong]_vars

\* The process answering text requests, with one completion for each way a
\* request can go on.
NextCore ==
    \/ \E text \in TextInputs, pos \in UserPositions : ReceiveRequest(text, pos[1], pos[2])
    \/ \E reply \in CoreLlmReplies : LlmReturns(reply)
    \/ \E reply \in SearchReplies : SearchReturns(reply)
    \/ \E reply \in RouteReplies : RouteReturns(reply)
    \/ NextRequest

\* Every collaborator call that was issued comes to an end: the completion
\* call returns or raises (the client's timeout), and each HTTP request ends
\* within its timeout (httpx.AsyncClient(timeout=...)).
FairSpec ==
    /\ Init
    /\ [][NextCore]_vars
    /\ WF_vars(\E reply \in CoreLlmReplies : LlmReturns(reply))
    /\ WF_vars(\E reply \in SearchReplies : SearchReturns(reply))
    /\ WF_vars(\E reply \in RouteReplies : RouteReturns(reply))

-----------------------------------------------------------------------------
(* Properties                                                               *)

Components(resp) == resp.envelope.ui_payload.components

Slots(resp) == resp.envelope.slots

HasComponent(resp, type) ==
    \E i \in 1..Len(Components(resp)) : Components(resp)[i].type = type

\* The generic failure envelope: an error marker in slots.
IsFailureEnvelope(resp) == "error" \in DOMAIN Slots(resp)

Logged(stage, event) == \E i \in 1..Len(call_log) : call_log[i] = <<stage, event>>

LoggedBefore(first, second) ==
    \A i \in 1..Len(call_log) :
        call_log[i] = second => \E j \in 1..(i - 1) : call_log[j] = first

\* The envelope schema as the wire format states it.
EnvelopeConforms(e) ==
    /\ {"intent_id", "category", "ui_schema_version", "slots", "ui_payload"} = DOMAIN e
    /\ e.category \in {"SERVICE", "CHAT"}
    /\ e.ui_schema_version = "1.0"
    /\ \A i \in 1..Len(e.ui_payload.components) :
          e.ui_payload.components[i].type
              \in {"MapView", "ActionList", "InfoCard", "DisambiguationList"}

\* C1: whatever the text, the position and the collaborators' outcomes, process
\* never raises to its caller, and the value it returns conforms to the
\* envelope schema.
C1_ProcessAlwaysReturnsEnvelope ==
    /\ response.status # "raised"
    /\ pc = "done" => response.status = "returned" /\ EnvelopeConforms(response.envelope)

\* C1 witness: a request that ended with an envelope although a stage raised
\* (get_route, on a routing payload that is no JSON object).
C1_Witness ==
    /\ pc = "done"
    /\ response.status = "returned"
    /\ route_result.status = "raised"

\* C2: the stages of a request run in sequence: at most one collaborator call
\* is in flight; the search is issued after the extraction has completed, the
\* disambiguation is evaluated after the search has completed, the routing call
\* is issued after the disambiguation has been evaluated.
C2_StagesSequential ==
    /\ Cardinality(in_flight) <= 1
    /\ LoggedBefore(<<"llm", "completed">>, <<"search", "issued">>)
    /\ LoggedBefore(<<"search", "completed">>, <<"disambiguation", "evaluated">>)
    /\ LoggedBefore(<<"disambiguation", "evaluated">>, <<"route", "issued">>)
    /\ LoggedBefore(<<"llm", "issued">>, <<"llm", "completed">>)
    /\ LoggedBefore(<<"search", "issued">>, <<"search", "completed">>)
    /\ LoggedBefore(<<"route", "issued">>, <<"route", "completed">>)

\* C2 witness: a request that went through all three collaborator calls.
C2_Witness ==
    /\ pc = "done"
    /\ Logged("route", "completed")
    /\ in_flight = {}

\* The request got through extraction with an actionable intent and the
\* search returned `search_result.value`.
SearchReturned == search_result.status = "returned"

Located == search_result.value

\* The top two results cannot be told apart, as the disambiguation heuristic
\* is stated: both distances known and less than 500 m apart, or no distances
\* and importances less than 0.1 apart.
TopTwoAmbiguous(locations) ==
    LET d1 == locations[1].distance_meters
        d2 == locations[2].distance_meters
    IN \/ /\ d1 # None
          /\ d2 # None
          /\ Abs(d2[1] - d1[1]) < 500
       \/ /\ d1 = None
          /\ d2 = None
          /\ Abs(locations[1].importance - locations[2].importance) < 100

IsDisambiguation(resp) ==
    resp.status = "returned" /\ HasComponent(resp, "DisambiguationList")

\* C3: for an actionable intent whose search returned at least two results,
\* process returns a Disambiguation response exactly when the top two results
\* are less than 500 m apart (distances known) or less than 0.1 apart in
\* importance (no distances); with fewer than two results, never.
C3_DisambiguationIffTopTwoClose ==
    (pc = "done" /\ SearchReturned) =>
        IF Len(Located) >= 2
        THEN IsDisambiguation(response) <=> TopTwoAmbiguous(Located)
        ELSE ~IsDisambiguation(response)

\* C4: extract_intent never propagates a failure to its caller, whichever way
\* the language-model collaborator fails, a client that cannot be constructed
\* for want of an API key included.
C4_ExtractNeverRaises == extract_result.status # "raised"

\* C5: when the language-model call fails, times out or returns malformed
\* structured output (text that does not decode, or that decodes to something
\* that is no well-formed intent object), extract_intent returns exactly the
\* default intent.
C5_MalformedGivesDefaultIntent ==
    (extract_result.status = "returned"
        /\ llm_outcome \in {"api_error", "timeout", "undecodable", "not_an_object",
                            "incomplete_object"})
    => extract_result.value = DefaultIntent(text_input)

\* The extracted intent is general_chat, or has no destination query (the key
\* is missing, or its value is null or empty).
ExtractedChatIntent ==
    /\ extract_result.status = "returned"
    /\ extract_result.value.type = "dict"
    /\ LET f == extract_result.value.fields
       IN \/ "intent_type" \in DOMAIN f /\ f.intent_type = "general_chat"
          \/ "destination_query" \notin DOMAIN f
          \/ f.destination_query \in {<<>>, <<"">>}

\* A Chat response: category CHAT, one informational card that echoes `text`.
IsChatResponse(resp, text) ==
    /\ resp.status = "returned"
    /\ resp.envelope.category = "CHAT"
    /\ ~IsFailureEnvelope(resp)
    /\ Len(Components(resp)) = 1
    /\ Components(resp)[1].type = "InfoCard"
    /\ Components(resp)[1].content_md.text = text

\* C6: when the extracted intent is general_chat or has no destination query,
\* process returns a Chat response echoing the input, and neither the search
\* nor the routing collaborator is called for that request.
C6_ChatIntentGivesChatResponse ==
    ExtractedChatIntent =>
        /\ pc = "done"
        /\ IsChatResponse(response, text_input)
        /\ ~Logged("search", "issued")
        /\ ~Logged("route", "issued")
        /\ in_flight = {}

\* C6 witness: a navigation intent without a destination query got the Chat
\* response.
C6_Witness ==
    /\ pc = "done"
    /\ ExtractedChatIntent
    /\ "intent_type" \in DOMAIN extract_result.value.fields
    /\ extract_result.value.fields.intent_type = "navigation"
    /\ IsChatResponse(response, text_input)

\* The "no results" response: category SERVICE, no marker, one informational
\* card saying that nothing was found, results_count 0, no error marker.
IsNoResultsResponse(resp) ==
    /\ resp.status = "returned"
    /\ resp.envelope.category = "SERVICE"
    /\ ~IsFailureEnvelope(resp)
    /\ "results_count" \in DOMAIN Slots(resp)
    /\ Slots(resp).results_count = 0
    /\ ~HasComponent(resp, "MapView")
    /\ Len(Components(resp)) = 1
    /\ Components(resp)[1].type = "InfoCard"
    /\ Components(resp)[1].title[2] = "No Results Found"

\* C7: for an actionable intent of any type, a search that returns no result
\* gives the "no results" response, which is no failure envelope, and the
\* routing collaborator is not called.
C7_EmptySearchGivesNoResults ==
    (SearchReturned /\ Located = <<>>) =>
        /\ pc = "done"
        /\ IsNoResultsResponse(response)
        /\ ~Logged("route", "issued")

\* C7 witness: a navigation request whose search timed out, with the user's
\* position known, ended with the "no results" response.
C7_Witness ==
    /\ pc = "done"
    /\ SearchReturned
    /\ Located = <<>>
    /\ search_reply.status = "timeout"
    /\ IntentType(extract_result.value) = "navigation"
    /\ PositionKnown(user_lat, user_lng)
    /\ IsNoResultsResponse(response)

\* C8: the list search_location returns is in ascending order of distance when
\* the user's position is known (results at distance 0 included), and in
\* descending order of importance otherwise.
C8_ResultsOrdered ==
    SearchReturned =>
        \A i \in 1..(Len(Located) - 1) :
            IF PositionKnown(user_lat, user_lng)
            THEN Located[i].distance_meters[1] <= Located[i + 1].distance_meters[1]
            ELSE Located[i].importance >= Located[i + 1].importance

\* C9: on any failure of the geocoding collaborator (network error, timeout,
\* non-success status, a payload that cannot be decoded or is malformed),
\* search_location returns the empty list and does not raise, and the request
\* ends with the "no results" response.
C9_SearchFailureGivesEmptyList ==
    search_reply.status \in {"network_error", "timeout", "bad_status", "undecodable",
                             "malformed"}
    => /\ SearchReturned
       /\ Located = <<>>
       /\ IsNoResultsResponse(response)

\* The routing collaborator failed, timed out, answered with a non-success
\* status (HTTP, or a code other than Ok) or with an empty route list.
RouteUnavailable ==
    \/ route_reply.status \in {"network_error", "timeout", "bad_status"}
    \/ route_reply.status = "ok" /\ (route_reply.code # "Ok" \/ route_reply.routes = <<>>)

\* A Navigation response for `dest` that carries no route: a map without
\* route overlay, no distance or duration in slots, no error marker.
IsUnroutedNavigation(resp, dest) ==
    /\ resp.status = "returned"
    /\ resp.envelope.category = "SERVICE"
    /\ ~IsFailureEnvelope(resp)
    /\ Components(resp)[1].type = "MapView"
    /\ "route_polyline" \notin DOMAIN Components(resp)[1]
    /\ {"distance_meters", "duration_seconds"} \cap DOMAIN Slots(resp) = {}
    /\ Slots(resp).destination = dest.name
    /\ Slots(resp).destination_lat = dest.lat
    /\ Slots(resp).destination_lng = dest.lng

\* C10: when the routing collaborator is unavailable, get_route returns None
\* without raising, and process still returns the Navigation response for the
\* resolved destination, without route overlay, distance or duration.
C10_RouteFailureStillNavigates ==
    (pc = "done" /\ RouteUnavailable) =>
        /\ route_result = [status |-> "returned", value |-> None]
        /\ IsUnroutedNavigation(response, Located[1])

\* C10 witness: the routing collaborator answered Ok with an empty route list
\* and the request ended with the Navigation response.
C10_Witness ==
    /\ pc = "done"
    /\ route_reply.status = "ok"
    /\ route_reply.code = "Ok"
    /\ route_reply.routes = <<>>
    /\ IsUnroutedNavigation(response, Located[1])

-----------------------------------------------------------------------------
(* Navigation response: ride tiers                                          *)

\* A Navigation response: built by build_navigation_response, it records the
\* destination in slots.
IsNavigation(resp) ==
    /\ resp.status = "returned"
    /\ ~IsFailureEnvelope(resp)
    /\ "destination" \in DOMAIN Slots(resp)

RideLists(resp) ==
    { i \in 1..Len(Components(resp)) : Components(resp)[i].type = "ActionList" }

\* A deep link that orders a ride of `tier` to `dest`, named with coordinates.
IsRideAction(item, tier, dest) ==
    /\ item.action.type = "deep_link"
    /\ DOMAIN item.action.url = {"api", "type", "dest", "dest_lat", "dest_lng"}
    /\ item.action.url.api = "order_ride"
    /\ item.action.url.type = tier
    /\ item.action.url.dest = dest.name
    /\ item.action.url.dest_lat = dest.lat
    /\ item.action.url.dest_lng = dest.lng

\* Exactly one action list: economy, premium, pool, in this order.
HasThreeRideTiers(resp, dest) ==
    /\ Cardinality(RideLists(resp)) = 1
    /\ \A i \in RideLists(resp) :
          /\ Len(Components(resp)[i].items) = 3
          /\ IsRideAction(Components(resp)[i].items[1], "economy", dest)
          /\ IsRideAction(Components(resp)[i].items[2], "premium", dest)
          /\ IsRideAction(Components(resp)[i].items[3], "pool", dest)

\* A ride_hailing intent, a search with exactly one match, no user position.
RideRequestOneMatchNoPosition ==
    /\ pc = "done"
    /\ SearchReturned
    /\ IntentType(extract_result.value) = "ride_hailing"
    /\ Len(Located) = 1
    /\ user_lat = None
    /\ user_lng = None

RideListIffTaxi ==
    (pc = "done" /\ IsNavigation(response)) =>
        /\ RideLists(response) # {} <=> ServiceType(extract_result.value) = Some("taxi")
        /\ RideLists(response) # {} => HasThreeRideTiers(response, Located[1])

-----------------------------------------------------------------------------
(* Navigation response: zoom                                                *)

\* The span between the user and the destination: the larger of the latitude
\* and longitude differences.  All points share one meridian, so it is the
\* latitude difference, in metres of arc.
CoordinateSpan(dest) ==
    IF Abs(user_lat[1] - dest.lat) >= Abs(user_lng[1] - dest.lng)
    THEN Abs(user_lat[1] - dest.lat) ELSE Abs(user_lng[1] - dest.lng)

\* The step function as stated: more than 0.5 degrees (55597 m of arc) gives
\* 10, more than 0.2 (22238 m) 11, more than 0.1 (11119 m) 12, more than 0.05
\* (5559 m) 13, anything else 14.
StatedZoom(span) ==
    IF span > 55597 THEN 10
    ELSE IF span > 22238 THEN 11
    ELSE IF span > 11119 THEN 12
    ELSE IF span > 5559 THEN 13
    ELSE 14

\* C12: in every Navigation response of a request that supplied the user's
\* position, the zoom of the map is the step function of the coordinate span
\* between the user and the destination, whether or not a route was found.
C12_ZoomIsStepFunctionOfSpan ==
    (pc = "done" /\ IsNavigation(response) /\ PositionKnown(user_lat, user_lng)) =>
        Components(response)[1].zoom = StatedZoom(CoordinateSpan(Located[1]))

-----------------------------------------------------------------------------
(* Envelope identity                                                        *)

-----------------------------------------------------------------------------
(* Exceptions                                                               *)

\* The envelope step 7 built was rejected by GenUIResponse.model_validate.
ValidationRaised ==
    /\ route_result.status = "returned"
    /\ ~model_validate(final_response(extract_result.value, search_result.value,
                                      user_lat, user_lng, route_result.value))

\* A stage of this request raised: extract_intent (no client), the reading of
\* an intent that is no object, search_location, get_route, or the validation
\* of the envelope.
StageRaised ==
    \/ extract_result.status = "raised"
    \/ extract_result.status = "returned" /\ extract_result.value.type # "dict"
    \/ search_result.status = "raised"
    \/ route_result.status = "raised"
    \/ ValidationRaised

\* The generic failure envelope for `text`: an error marker and the first 100
\* characters of the text in slots, one warning card, nothing else.
IsGenericFailure(resp, text) ==
    /\ resp.status = "returned"
    /\ DOMAIN Slots(resp) = {"error", "original_query"}
    /\ Slots(resp).error = "processing_failed"
    /\ Len(Slots(resp).original_query) <= 100
    /\ Slots(resp).original_query = [i \in 1..(IF Len(text) < 100 THEN Len(text) ELSE 100) |-> text[i]]
    /\ Len(Components(resp)) = 1
    /\ Components(resp)[1].type = "InfoCard"
    /\ Components(resp)[1].style = "warning"

\* C16: when a stage of the request raises, process returns the generic
\* failure envelope, whose slots hold the error marker and the input cut to
\* at most 100 characters, and nothing of the response the stage was building.
C16_ExceptionGivesFailureEnvelope ==
    StageRaised => (pc = "done" /\ IsGenericFailure(response, text_input))

\* C16 witness: search_location raised in a request whose text is longer than
\* 100 characters; the failure envelope echoes its first 100.
C16_Witness ==
    /\ pc = "done"
    /\ search_result.status = "raised"
    /\ Len(text_input) > 100
    /\ IsGenericFailure(response, text_input)
    /\ Len(Slots(response).original_query) = 100

-----------------------------------------------------------------------------
(* Routing call                                                             *)

RouteCalls == { i \in 1..Len(call_log) : call_log[i] = <<"route", "issued">> }

\* C20: a request calls the routing collaborator at most once, and only when
\* latitude and longitude were both supplied, the intent is navigation or
\* ride_hailing, the search returned at least one location and no
\* disambiguation was triggered; the call goes from the user's position to
\* the first location, with profile driving for service_type taxi and walking
\* for any other; a search_poi intent never calls it.
C20_RouteCallConditions ==
    /\ Cardinality(RouteCalls) <= 1
    /\ RouteCalls # {} <=> route_request.status = "issued"
    /\ RouteCalls # {} =>
          /\ user_lat # None
          /\ user_lng # None
          /\ IntentType(extract_result.value) \in {"navigation", "ride_hailing"}
          /\ SearchReturned
          /\ Len(Located) >= 1
          /\ ~IsDisambiguation(response)
          /\ route_request.start_lat = user_lat[1]
          /\ route_request.start_lng = user_lng[1]
          /\ route_request.end_lat = Located[1].lat
          /\ route_request.end_lng = Located[1].lng
          /\ route_request.profile =
                IF ServiceType(extract_result.value) = <<"taxi">> THEN "driving" ELSE "walking"
    /\ (extract_result.status = "returned" /\ extract_result.value.type = "dict"
           /\ IntentType(extract_result.value) = "search_poi") => RouteCalls = {}

\* C20 witness: a navigation request with service_type bike and both
\* coordinates called the routing collaborator with profile walking.
C20_Witness ==
    /\ pc = "done"
    /\ RouteCalls # {}
    /\ IntentType(extract_result.value) = "navigation"
    /\ ServiceType(extract_result.value) = <<"bike">>
    /\ route_request.profile = "walking"
    /\ route_request.end_lat = Located[1].lat

-----------------------------------------------------------------------------
(* Termination and stage order                                              *)

\* The stages in the order of process_intent_with_lbs.
StageOrder ==
    << <<"llm", "issued">>, <<"llm", "completed">>,
       <<"search", "issued">>, <<"search", "completed">>,
       <<"disambiguation", "evaluated">>,
       <<"route", "issued">>, <<"route", "completed">> >>

\* The stages run so far are the first stages of the order: none was skipped
\* over and come back to, none ran twice.
FollowsStageOrder ==
    /\ Len(call_log) <= Len(StageOrder)
    /\ \A i \in 1..Len(call_log) : call_log[i] = StageOrder[i]

IsPoiResults(resp) ==
    /\ resp.status = "returned"
    /\ ~IsFailureEnvelope(resp)
    /\ "results_count" \in DOMAIN Slots(resp)
    /\ Slots(resp).results_count > 0

\* The terminal outcomes the response is an instance of.
TerminalOutcomes ==
    { o \in {"Chat", "PoiEmpty", "Disambiguation", "BuildResponse", "Failure"} :
        \/ o = "Chat" /\ IsChatResponse(response, text_input)
        \/ o = "PoiEmpty" /\ IsNoResultsResponse(response)
        \/ o = "Disambiguation" /\ IsDisambiguation(response)
        \/ o = "BuildResponse" /\ (IsNavigation(response) \/ IsPoiResults(response))
        \/ o = "Failure" /\ IsGenericFailure(response, text_input) }

\* The request is at its end: one outcome, nothing in flight.
Terminated ==
    /\ pc = "done"
    /\ response.status = "returned"
    /\ Cardinality(TerminalOutcomes) = 1
    /\ in_flight = {}

\* C19: when every collaborator call comes to an end, every request that was
\* received ends with exactly one of Chat, PoiEmpty, Disambiguation,
\* BuildResponse or the generic failure envelope; its stages follow the order
\* extraction, search, disambiguation check, routing with none run twice; and
\* once the outcome is reached no collaborator call is made for the request.
C19_RequestTerminatesInOrder ==
    /\ [](FollowsStageOrder /\ (pc = "done" => Terminated))
    /\ [][pc = "done" => (call_log' = call_log \/ pc' = "idle")]_vars
    /\ (pc \in {"llm_call", "search_call", "route_call"}) ~> Terminated

\* C19 witness: a request ran every stage of the order and ended with the
\* response of step 7.
C19_Witness ==
    /\ Terminated
    /\ call_log = StageOrder
    /\ TerminalOutcomes = {"BuildResponse"}

-----------------------------------------------------------------------------
(* Caps of the lists                                                        *)

\* C13: a Disambiguation response holds exactly one DisambiguationList, whose
\* items are the first min(n, 5) of the n resolved locations, in the
\* resolver's order: the two ambiguous top candidates are listed, and never
\* more than 5 items, however many results the search returned.
C13_DisambiguationListCapped ==
    (pc = "done" /\ IsDisambiguation(response)) =>
        /\ Len(Components(response)) = 1
        /\ LET items == Components(response)[1].items
               shown == IF Len(Located) < 5 THEN Len(Located) ELSE 5
           IN /\ Len(items) = shown
              /\ Len(items) <= 5
              /\ Len(items) >= 2
              /\ \A i \in 1..shown :
                    /\ items[i].id = Located[i].id
                    /\ items[i].lat = Located[i].lat
                    /\ items[i].lng = Located[i].lng

\* C13 witness: a search returned more than 5 results whose top two are
\* ambiguous; the Disambiguation response lists the first 5.
C13_Witness ==
    /\ pc = "done"
    /\ IsDisambiguation(response)
    /\ Len(Located) > 5
    /\ Len(Components(response)[1].items) = 5
    /\ Components(response)[1].items[2].id = Located[2].id

PoiMarkers(resp) == Components(resp)[1].markers

PoiCandidates(resp) == Components(resp)[2].items

\* C14 as stated: the map of a non-empty PoiResults response has at most 10
\* markers in total, its action list at most 5 candidates.
C14_AtMostTenMarkersInTotal ==
    (pc = "done" /\ IsPoiResults(response)) =>
        /\ Len(PoiMarkers(response)) <= 10
        /\ Len(PoiCandidates(response)) <= 5

\* C14: the map of a non-empty PoiResults response has a marker for each of
\* the first min(n, 10) resolved locations, preceded by one marker of the
\* user's position when latitude and longitude are supplied and non-zero (at
\* most 11 markers in total); its action list has the first min(n, 5)
\* locations as candidates.
C14_TenLocationMarkersFiveCandidates ==
    (pc = "done" /\ IsPoiResults(response)) =>
        LET n      == Len(Located)
            user   == IF user_lat \notin {<<>>, <<0>>} /\ user_lng \notin {<<>>, <<0>>}
                      THEN 1 ELSE 0
            marked == IF n < 10 THEN n ELSE 10
            listed == IF n < 5 THEN n ELSE 5
        IN /\ Len(Components(response)) = 2
           /\ Components(response)[1].type = "MapView"
           /\ Components(response)[2].type = "ActionList"
           /\ Len(PoiMarkers(response)) = user + marked
           /\ Len(PoiMarkers(response)) <= 11
           /\ \A i \in 1..marked :
                 /\ PoiMarkers(response)[user + i].lat = Located[i].lat
                 /\ PoiMarkers(response)[user + i].lng = Located[i].lng
           /\ user = 1 => /\ PoiMarkers(response)[1].lat = user_lat[1]
                          /\ PoiMarkers(response)[1].lng = user_lng[1]
           /\ Len(PoiCandidates(response)) = listed
           /\ Len(PoiCandidates(response)) <= 5
           /\ \A i \in 1..listed : PoiCandidates(response)[i].id = Located[i].id

\* C14 witness: a search with the user's position known returned more than
\* 10 results; the map has 11 markers, the action list 5 candidates.
C14_Witness ==
    /\ pc = "done"
    /\ IsPoiResults(response)
    /\ Len(Located) > 10
    /\ Len(PoiMarkers(response)) = 11
    /\ Len(PoiCandidates(response)) = 5

-----------------------------------------------------------------------------
(* Voice entry point                                                        *)

PipelineCalls ==
    { i \in 1..Len(call_log) : call_log[i][1] \in {"llm", "search", "route"} }

\* The transcription raised, or returned a text that strip() leaves empty.
TranscriptionUnusable ==
    \/ transcription.status = "raised"
    \/ transcription.status = "returned" /\ transcription.text = <<>>

\* Transcription comes first; an unusable transcription gives the failure
\* envelope for the marker and no call of extraction, search or routing; a
\* usable one runs the pipeline on the transcript.
VoiceTranscribesFirst ==
    entry = "voice" =>
        /\ call_log # <<>> => call_log[1] = <<"transcribe", "issued">>
        /\ PipelineCalls # {} =>
              /\ transcription.status = "returned"
              /\ text_input = transcription.text
              /\ text_input # <<>>
        /\ TranscriptionUnusable =>
              /\ pc = "done"
              /\ IsGenericFailure(response, <<91, 35821, 38899, 36755, 20837, 93>>)
              /\ PipelineCalls = {}
              /\ extract_result.status = "none"
        /\ (transcription.status = "returned" /\ transcription.text # <<>>) =>
              /\ text_input = transcription.text
              /\ extract_result.status = "raised" \/ Logged("llm", "issued")
              /\ route_request.status = "issued" =>
                    /\ route_request.start_lat = user_lat[1]
                    /\ route_request.start_lng = user_lng[1]

\* C17 as stated: transcription first, the marker on an unusable
\* transcription, the pipeline on the transcript, and on every path the
\* temporary file is gone when process_voice returns.
C17_TempFileAlwaysRemoved ==
    /\ VoiceTranscribesFirst
    /\ (entry = "voice" /\ pc = "done") => temp_file \in {"none", "removed"}

\* C17: transcription first, the marker on an unusable transcription, the
\* pipeline on the transcript; when process_voice returns, a temporary file
\* that was created has been unlinked, or the unlinking failed and the file is
\* left; while the request is in progress the file exists.
C17_VoiceMarkerAndCleanupAttempt ==
    /\ VoiceTranscribesFirst
    /\ (entry = "voice" /\ pc = "done") =>
          /\ temp_file \in {"none", "removed", "left"}
          /\ temp_file = "none" => transcription.status = "not_called"
    /\ (entry = "voice" /\ pc # "done") => temp_file = "exists"
    /\ entry # "voice" => temp_file = "none"

\* C17 witness: the transcription raised; process_voice returned the failure
\* envelope for the marker without a call of the pipeline, the file removed.
C17_Witness ==
    /\ entry = "voice"
    /\ pc = "done"
    /\ transcription.status = "raised"
    /\ IsGenericFailure(response, VoiceMarker)
    /\ PipelineCalls = {}
    /\ temp_file = "removed"

-----------------------------------------------------------------------------
(* Collaborator handles                                                     *)

\* The requests that made a search call, and those that made a routing call.
Searched == { r \in DOMAIN tasks : tasks[r] \in {"search_call", "route_call",
                                                  "after_search", "after_route"} }

Routed == { r \in DOMAIN tasks : tasks[r] \in {"route_call", "after_route"} }

\* C18 as stated: each of the three handles (language model, search,
\* routing) is constructed at most once, whatever the number and the
\* interleaving of the requests.
C18_EachHandleConstructedOnce ==
    /\ constructed.llm <= 1
    /\ constructed.search <= 1
    /\ constructed.route <= 1

\* C18: the language-model client is constructed at most once, on first use,
\* and is the client every later request gets; the search and the routing
\* have no handle of the process: each of their calls constructs a client of
\* its own.
C18_OnlyLlmClientIsSingleton ==
    /\ constructed.llm <= 1
    /\ constructed.llm = 1 <=> llm_client = "OpenAI"
    /\ constructed.llm = 0 <=> \A r \in DOMAIN tasks : tasks[r] \in {"idle", "failed"}
    /\ constructed.search = Cardinality(Searched)
    /\ constructed.route = Cardinality(Routed)

\* C18 witness: two requests await their searches at the same time, on two
\* HTTP clients, with the one language-model client both have used.
C18_Witness ==
    /\ Cardinality({ r \in DOMAIN tasks : tasks[r] = "search_call" }) = 2
    /\ constructed.llm = 1
    /\ constructed.search = 2

====
